---------------------------- MODULE Spec2Model ----------------------------
(***************************************************************************)
(* A model of src/main.py: class ExchangeRateAPI and the script's main     *)
(* block.  One run of the script is                                        *)
(*     api = ExchangeRateAPI(args.since)                                   *)
(*     api.generate_parquet_quarterly_files()                              *)
(* The environment is the clock (datetime.now()), the command line         *)
(* argument, the remote server (one response per requests.get) and the     *)
(* files already present in the working directory.                         *)
(*                                                                         *)
(* Strings that the program parses or formats (dates) are sequences of     *)
(* one-character strings; strings it only passes along (record fields,     *)
(* continuation links, file names) are TLA+ strings.                       *)
(***************************************************************************)
EXTENDS Integers, Sequences, FiniteSets, TLC

VARIABLES
    now,                    \* datetime.now(): the clock of the run
    argv_since,             \* args.since: the -s argument, << >> when not given
    pc,                     \* position of the script
    since_date_str,         \* self.since_date_str
    raised,                 \* the exception that ended the run, if any
    requests_made,          \* the URL suffixes given to requests.get, in order
    served,                 \* the responses the service has returned, in order
    response,               \* local variable response
    responses,              \* local variable responses
    expected_data_count,    \* local variable expected_data_count
    next_pg,                \* local variable next_pg
    exchange_data,          \* local variable exchange_data
    df,                     \* local variable df (the DataFrame)
    grouped_df,             \* the groups of grouped_df not yet iterated
    parquet_files_created,  \* local variable parquet_files_created
    disk,                   \* the *.parquet files of the working directory
    stdout                  \* the lines printed

vars == <<now, argv_since, pc, since_date_str, raised, requests_made, served,
          response, responses, expected_data_count, next_pg, exchange_data, df,
          grouped_df, parquet_files_created, disk, stdout>>

(***************************************************************************)
(* Bounds of the model.                                                    *)
(***************************************************************************)
FirstYear   == 2023     \* the clock and the -s argument lie in FirstYear..LastYear
LastYear    == 2025
MaxRequests == 3        \* the server stops handing out fresh links after this many pages
MaxRecords  == 2        \* the server serves at most this many records in a session

(***************************************************************************)
(* Python values.                                                          *)
(***************************************************************************)
None == "None"          \* Python None / JSON null
NaN  == "NaN"           \* pandas' missing value

\* Truthiness of a str-or-None value held as a TLA+ string.
Truthy(s) == s # None /\ s # ""

(***************************************************************************)
(* datetime: the calendar.                                                 *)
(***************************************************************************)
IsLeap(y) == (y % 4 = 0 /\ y % 100 # 0) \/ y % 400 = 0

DaysInMonth(y, m) ==
    IF m = 2 THEN (IF IsLeap(y) THEN 29 ELSE 28)
    ELSE IF m \in {4, 6, 9, 11} THEN 30 ELSE 31

\* datetime(year, month, day): midnight of that day.  tod is the time of day,
\* 0 at midnight and positive later.
datetime(y, m, d) == [year |-> y, month |-> m, day |-> d, tod |-> 0]

\* dt + timedelta(days=-1)
MinusOneDay(dt) ==
    IF dt.day > 1 THEN [dt EXCEPT !.day = dt.day - 1]
    ELSE IF dt.month > 1
         THEN [dt EXCEPT !.month = dt.month - 1,
                         !.day = DaysInMonth(dt.year, dt.month - 1)]
         ELSE [dt EXCEPT !.year = dt.year - 1, !.month = 12, !.day = 31]

\* a > b on datetime objects
DatetimeGt(a, b) ==
    \/ a.year > b.year
    \/ a.year = b.year /\ a.month > b.month
    \/ a.year = b.year /\ a.month = b.month /\ a.day > b.day
    \/ a.year = b.year /\ a.month = b.month /\ a.day = b.day /\ a.tod > b.tod

(***************************************************************************)
(* str.split('-'), int() and strftime('%Y-%m-%d') on character sequences.  *)
(***************************************************************************)
Digits == <<"0", "1", "2", "3", "4", "5", "6", "7", "8", "9">>

DigitChar(n) == Digits[n + 1]

DigitVal(c) == (CHOOSE i \in 1..10 : Digits[i] = c) - 1

\* int(s) for a sequence of decimal digits
RECURSIVE int(_)
int(s) ==
    IF Len(s) = 0 THEN 0
    ELSE 10 * int(SubSeq(s, 1, Len(s) - 1)) + DigitVal(s[Len(s)])

\* s.split('-'): the pieces of s between the '-' characters
RECURSIVE split(_)
split(s) ==
    IF \A i \in 1..Len(s) : s[i] # "-" THEN <<s>>
    ELSE LET k == CHOOSE i \in 1..Len(s) :
                      s[i] = "-" /\ \A j \in 1..(i - 1) : s[j] # "-"
         IN  <<SubSeq(s, 1, k - 1)>> \o split(SubSeq(s, k + 1, Len(s)))

\* The decimal digits of n, zero-padded to at least w characters (%Y, %m, %d).
RECURSIVE ZeroPad(_, _)
ZeroPad(n, w) ==
    IF w <= 1 /\ n < 10 THEN <<DigitChar(n)>>
    ELSE ZeroPad(n \div 10, w - 1) \o <<DigitChar(n % 10)>>

\* dt.strftime(ExchangeRateAPI.DATE_STR_FORMAT)
strftime(dt) ==
    ZeroPad(dt.year, 4) \o <<"-">> \o ZeroPad(dt.month, 2) \o <<"-">> \o ZeroPad(dt.day, 2)

(***************************************************************************)
(* ExchangeRateAPI: the quarter arithmetic.                                *)
(***************************************************************************)
\* A variant of get_quarter: the month taken as if months counted from 0.
get_quarter_from_zero(since_date) == since_date.month \div 3 + 1

get_quarter(since_date) == (since_date.month - 1) \div 3 + 1

\* A variant of get_last_day_of_the_quarter: the year carry of the fourth
\* quarter computed as 3 * (quarter // 12).
get_last_day_of_the_quarter_no_carry(since_date) ==
    LET quarter == get_quarter(since_date)
    IN  MinusOneDay(datetime(since_date.year + 3 * (quarter \div 12),
                             ((3 * quarter) % 12) + 1, 1))

get_last_day_of_the_quarter(since_date) ==
    LET quarter == get_quarter(since_date)
    IN  MinusOneDay(datetime(since_date.year + (3 * quarter) \div 12,
                             ((3 * quarter) % 12) + 1, 1))

get_last_day_of_previous_quarter(since_date) ==
    LET quarter == get_quarter(since_date)
    IN  MinusOneDay(datetime(since_date.year, 3 * quarter - 2, 1))

\* year, month, day = since_date_str.split('-'); datetime(int(year), int(month), int(day))
ParseDate(s) ==
    LET parts == split(s)
    IN  datetime(int(parts[1]), int(parts[2]), int(parts[3]))

\* A variant of __is_date_in_future__: today counts as the future.
is_date_in_future_from_today(s, clock) == DatetimeGt(ParseDate(s), MinusOneDay(clock))

is_date_in_future(s, clock) == DatetimeGt(ParseDate(s), clock)

\* The value __generate_quarterly_date_str__ returns when it does not raise.
generate_quarterly_date_str(s, clock) ==
    IF Len(s) > 0
    THEN strftime(get_last_day_of_the_quarter(ParseDate(s)))
    ELSE strftime(get_last_day_of_previous_quarter(clock))

(***************************************************************************)
(* The remote service: what a requests.get may return.                     *)
(***************************************************************************)
\* The record_date values the service publishes, in ascending order.
RecordDates == <<"2024-03-31", "2024-06-30">>

Entry(currency, date) ==
    [country_currency_desc |-> currency, exchange_rate |-> "1.0", record_date |-> date]

\* An entry of "data" without the record_date key.
EntryNoDate(currency) ==
    [country_currency_desc |-> currency, exchange_rate |-> "1.0"]

Entries ==
    { Entry("Canada-Dollar", RecordDates[1]), Entry("Euro Zone-Euro", RecordDates[1]),
      Entry("Canada-Dollar", RecordDates[2]), Entry("Canada-Dollar", None),
      EntryNoDate("Canada-Dollar") }

\* The sequences over S of length at most n.
RECURSIVE SeqsUpTo(_, _)
SeqsUpTo(S, n) ==
    IF n = 0 THEN {<< >>}
    ELSE LET shorter == SeqsUpTo(S, n - 1)
         IN  shorter \cup {Append(q, x) : q \in {t \in shorter : Len(t) = n - 1}, x \in S}

\* The continuation link of the (k+1)-th page, as page k's links.next gives it.
PageLinks == <<"&page%5Bnumber%5D=2", "&page%5Bnumber%5D=3", "&page%5Bnumber%5D=4",
               "&page%5Bnumber%5D=5", "&page%5Bnumber%5D=6">>

StatusCodes == {200, 404, 503}

\* requests.Response.ok
ok(r) == r.status_code < 400

\* response.json() of a successful response.  links always holds "self" and
\* holds "next" unless the service left the key out.
Body(data, total, links) ==
    [data |-> data, meta |-> [k \in {"total-count"} |-> total], links |-> links]

LinksWithNext(n) == [self |-> "&page%5Bnumber%5D=1", next |-> n]
LinksWithoutNext == [self |-> "&page%5Bnumber%5D=1"]

\* The number of entries the service has served in the session so far.
RECURSIVE Served(_)
Served(rs) ==
    IF Len(rs) = 0 THEN 0 ELSE Len(rs[1].json.data) + Served(Tail(rs))

\* What the service may answer to the next request, after the responses rs.
\* A fresh link is the link of the page after the ones requested so far; ""
\* is a link that leads back to the first page.  The first page declares any
\* total; the later pages repeat it.
ServerResponses(rs) ==
    LET links == {LinksWithoutNext}
                 \cup {LinksWithNext(n) : n \in {None, ""}}
                 \cup (IF Len(rs) + 1 < MaxRequests
                       THEN {LinksWithNext(PageLinks[Len(rs) + 1])} ELSE {})
        totals == IF Len(rs) = 0 THEN 0..(MaxRecords + 1)
                  ELSE {rs[1].json.meta["total-count"]}
    IN  {[status_code |-> c] : c \in {c \in StatusCodes : c >= 400}}
        \cup {[status_code |-> 200, json |-> Body(d, t, l)] :
                d \in SeqsUpTo(Entries, MaxRecords - Served(rs)),
                t \in totals, l \in links}

(***************************************************************************)
(* pandas.                                                                 *)
(***************************************************************************)
\* A variant of the flattening: the pages taken last to first.
RECURSIVE FlattenLastFirst(_)
FlattenLastFirst(rs) ==
    IF Len(rs) = 0 THEN << >> ELSE FlattenLastFirst(Tail(rs)) \o rs[1].json.data

\* [entry for response in responses for entry in response.json()['data']]
RECURSIVE Flatten(_)
Flatten(rs) ==
    IF Len(rs) = 0 THEN << >> ELSE rs[1].json.data \o Flatten(Tail(rs))

\* pd.json_normalize(exchange_data): one row per entry, one column per key
\* that some entry has, NaN where an entry lacks the key.  No entries: no
\* columns.
json_normalize(entries) ==
    LET columns == UNION {DOMAIN entries[i] : i \in 1..Len(entries)}
    IN  [columns |-> columns,
         rows |-> [i \in 1..Len(entries) |->
                     [c \in columns |-> IF c \in DOMAIN entries[i]
                                        THEN entries[i][c] ELSE NaN]]]

isna(v) == v \in {None, NaN}

\* df.groupby(['record_date']), for a df that has the column: the groups in
\* ascending key order (sort=True), rows with a missing key left out
\* (dropna=True); each key is a 1-tuple, as pandas 2 gives it for a list of
\* one column, which is what date[0] of line 153 takes apart.
groupby(frame) ==
    LET keys == {frame.rows[i].record_date : i \in 1..Len(frame.rows)}
        IsKey(k) == k \in keys /\ ~isna(k)
        sorted == SelectSeq(RecordDates, IsKey)
    IN  [i \in 1..Len(sorted) |->
           LET InGroup(row) == row.record_date = sorted[i]
           IN  <<(<<sorted[i]>>), SelectSeq(frame.rows, InGroup)>>]

\* A variant of the row count: the declared total taken for the count.
RowCountAsDeclared(frame) == expected_data_count

\* df.shape[0]
RowCount(frame) == Len(frame.rows)

\* ", ".join(names)
RECURSIVE join(_)
join(names) ==
    IF Len(names) = 0 THEN ""
    ELSE IF Len(names) = 1 THEN names[1]
    ELSE names[1] \o ", " \o join(Tail(names))

(***************************************************************************)
(* The run.                                                                *)
(***************************************************************************)
NoException == [type |-> "none"]

\* Times of day of the clock: midnight, and some later instant.
TimesOfDay == {0, 1}

\* The working directory before the run: empty, or holding the file an
\* earlier run wrote for the first record date.
EarlierFile ==
    [country_currency_desc |-> "Canada-Dollar", exchange_rate |-> "0.9",
     record_date |-> RecordDates[1]]

InitialDisks ==
    { << >>, [n \in {RecordDates[1] \o ".parquet"} |-> <<EarlierFile>>] }

\* The state before the constructor runs, but for the clock, the argument
\* and the working directory.
InitRun ==
    /\ pc = "main"
    /\ since_date_str = << >>
    /\ raised = NoException
    /\ requests_made = << >>
    /\ served = << >>
    /\ response = None
    /\ responses = << >>
    /\ expected_data_count = 0
    /\ next_pg = None
    /\ exchange_data = << >>
    /\ df = [columns |-> {}, rows |-> << >>]
    /\ grouped_df = << >>
    /\ parquet_files_created = << >>
    /\ stdout = << >>

Raise(e) ==
    /\ raised' = e
    /\ pc' = "raised"

\* api = ExchangeRateAPI(args.since)
Construct ==
    /\ pc = "main"
    /\ IF Len(argv_since) > 0 /\ is_date_in_future(argv_since, now)
       THEN /\ Raise([type |-> "ValueError", date |-> argv_since])
            /\ UNCHANGED since_date_str
       ELSE /\ since_date_str' = generate_quarterly_date_str(argv_since, now)
            /\ pc' = "fetch"
            /\ UNCHANGED raised
    /\ UNCHANGED <<now, argv_since, requests_made, served, response, responses,
                   expected_data_count, next_pg, exchange_data, df, grouped_df,
                   parquet_files_created, disk, stdout>>

\* A variant of the fetch error: the status of the response before.
FetchErrorOfPrevious(r) ==
    [type |-> "Exception",
     status_code |-> IF response = None THEN 200 ELSE response.status_code]

\* The exception of lines 118 and 132.
FetchError(r) == [type |-> "Exception", status_code |-> r.status_code]

\* The URL of a request: the endpoint with the record_date filter, and the
\* continuation link appended to it.
Url(date_str, link) == [filter |-> date_str, page |-> link]

\* Lines 109-124: the first request.
FirstRequest ==
    /\ pc = "fetch"
    /\ \E r \in ServerResponses(<< >>) :
         /\ requests_made' = <<Url(since_date_str, "")>>
         /\ served' = <<r>>
         /\ response' = r
         /\ IF ~ok(r)
            THEN /\ Raise(FetchError(r))
                 /\ UNCHANGED <<responses, expected_data_count, next_pg>>
            ELSE /\ responses' = <<r>>
                 /\ expected_data_count' = r.json.meta["total-count"]
                 /\ IF "next" \in DOMAIN r.json.links
                    THEN /\ next_pg' = r.json.links.next
                         /\ pc' = "paginate"
                         /\ UNCHANGED raised
                    ELSE /\ Raise([type |-> "KeyError", key |-> "next"])
                         /\ UNCHANGED next_pg
    /\ UNCHANGED <<now, argv_since, since_date_str, exchange_data, df, grouped_df,
                   parquet_files_created, disk, stdout>>

\* Lines 125-133: the loop test and one pass of the loop body.
Paginate ==
    /\ pc = "paginate"
    /\ IF ~(Truthy(next_pg) /\ ok(response))
       THEN /\ pc' = "process"
            /\ UNCHANGED <<raised, requests_made, served, response, responses, next_pg>>
       ELSE IF "next" \notin DOMAIN response.json.links
       THEN /\ Raise([type |-> "KeyError", key |-> "next"])
            /\ UNCHANGED <<requests_made, served, response, responses, next_pg>>
       ELSE LET link == response.json.links.next
            IN  /\ next_pg' = link
                /\ IF link = None
                   THEN /\ pc' = "process"
                        /\ UNCHANGED <<raised, requests_made, served, response, responses>>
                   ELSE \E r \in ServerResponses(served) :
                          /\ requests_made' = Append(requests_made, Url(since_date_str, link))
                          /\ served' = Append(served, r)
                          /\ response' = r
                          /\ IF ~ok(r)
                             THEN /\ Raise(FetchError(r))
                                  /\ UNCHANGED responses
                             ELSE /\ responses' = Append(responses, r)
                                  /\ UNCHANGED <<raised, pc>>
    /\ UNCHANGED <<now, argv_since, since_date_str, expected_data_count,
                   exchange_data, df, grouped_df, parquet_files_created, disk, stdout>>

\* Lines 136-146: flatten, normalise, group, validate.
Process ==
    /\ pc = "process"
    /\ LET flat == Flatten(responses)
           frame == json_normalize(flat)
       IN  /\ exchange_data' = flat
           /\ df' = frame
           /\ IF "record_date" \notin frame.columns
              THEN /\ Raise([type |-> "KeyError", key |-> "record_date"])
                   /\ UNCHANGED grouped_df
              ELSE /\ grouped_df' = groupby(frame)
                   /\ IF RowCount(frame) # expected_data_count
                      THEN Raise([type |-> "NameError", name |-> "data_count"])
                      ELSE /\ pc' = "write"
                           /\ UNCHANGED raised
    /\ UNCHANGED <<now, argv_since, since_date_str, requests_made, served, response,
                   responses, expected_data_count, next_pg, parquet_files_created,
                   disk, stdout>>

\* group.to_parquet(name): the file name now holds the group's rows.
to_parquet(files, name, group) ==
    [n \in DOMAIN files \cup {name} |-> IF n = name THEN group ELSE files[n]]

\* Lines 147-154: one pass of the loop over the groups.
WriteFile ==
    /\ pc = "write"
    /\ Len(grouped_df) > 0
    /\ LET date == grouped_df[1][1]
           group == grouped_df[1][2]
           name == date[1] \o ".parquet"
       IN  /\ disk' = to_parquet(disk, name, group)
           /\ parquet_files_created' = Append(parquet_files_created, name)
    /\ grouped_df' = Tail(grouped_df)
    /\ UNCHANGED <<now, argv_since, pc, since_date_str, raised, requests_made,
                   served, response, responses, expected_data_count, next_pg,
                   exchange_data, df, stdout>>

\* Line 156.
PrintCreated ==
    /\ pc = "write"
    /\ Len(grouped_df) = 0
    /\ stdout' = Append(stdout, "Successfully created: " \o join(parquet_files_created) \o ".")
    /\ pc' = "done"
    /\ UNCHANGED <<now, argv_since, since_date_str, raised, requests_made, served,
                   response, responses, expected_data_count, next_pg, exchange_data,
                   df, grouped_df, parquet_files_created, disk>>

generate_parquet_quarterly_files ==
    FirstRequest \/ Paginate \/ Process \/ WriteFile \/ PrintCreated

(***************************************************************************)
(* The -s argument: a text that validate_date_str accepts, with the date   *)
(* it denotes.  strptime takes the month and the day with or without a     *)
(* leading zero.                                                           *)
(***************************************************************************)
Years == FirstYear..LastYear

\* The days of Years: what validate_date_str (strptime) takes for a date.
Dates ==
    {dt \in {datetime(y, m, d) : y \in Years, m \in 1..12, d \in 1..31} :
        dt.day <= DaysInMonth(dt.year, dt.month)}

Unpadded(dt) ==
    ZeroPad(dt.year, 1) \o <<"-">> \o ZeroPad(dt.month, 1) \o <<"-">> \o ZeroPad(dt.day, 1)

Arg(dt, text) == [text |-> text, year |-> dt.year, month |-> dt.month, day |-> dt.day]

DateArgs == {Arg(dt, strftime(dt)) : dt \in Dates} \cup {Arg(dt, Unpadded(dt)) : dt \in Dates}

\* The clocks tried against the argument denoting dt: the same day and the
\* day before, and the middle of each year.
ClocksFor(dt) ==
    {[c EXCEPT !.tod = t] :
        c \in {dt, MinusOneDay(dt)} \cup {datetime(y, 7, 1) : y \in Years},
        t \in TimesOfDay}

(***************************************************************************)
(* Spec: whole runs of the script, for one clock and a few arguments.      *)
(***************************************************************************)
RunClock == [datetime(2024, 2, 15) EXCEPT !.tod = 1]

RunArgs ==
    {a \in DateArgs : a.text = strftime(a) /\
        <<a.year, a.month, a.day>> \in
            {<<2023, 12, 31>>, <<2024, 2, 15>>, <<2024, 2, 16>>, <<2024, 3, 1>>,
             <<2025, 1, 1>>}}

Init ==
    /\ now = RunClock
    /\ argv_since \in {<< >>} \cup {a.text : a \in RunArgs}
    /\ disk \in InitialDisks
    /\ InitRun

Next == Construct \/ generate_parquet_quarterly_files

Spec == Init /\ [][Next]_vars

(***************************************************************************)
(* SpecDate: the constructor alone, for every clock and every argument of  *)
(* Years.                                                                  *)
(***************************************************************************)
InitDate ==
    /\ \/ /\ argv_since = << >>
          /\ now \in {[dt EXCEPT !.tod = t] : dt \in Dates, t \in TimesOfDay}
       \/ \E a \in DateArgs :
            /\ argv_since = a.text
            /\ now \in ClocksFor(datetime(a.year, a.month, a.day))
    /\ disk = << >>
    /\ InitRun

SpecDate == InitDate /\ [][Construct]_vars

(***************************************************************************)
(* Vocabulary of the properties.                                           *)
(***************************************************************************)
\* A number that orders calendar days.
DayKey(y, m, d) == y * 10000 + m * 100 + d

IsDigit(c) == \E i \in 1..10 : Digits[i] = c

\* text has the shape YYYY-MM-DD.
IsIsoDate(text) ==
    /\ Len(text) = 10
    /\ text[5] = "-" /\ text[8] = "-"
    /\ \A i \in {1, 2, 3, 4, 6, 7, 9, 10} : IsDigit(text[i])

IsoYear(text) ==
    1000 * DigitVal(text[1]) + 100 * DigitVal(text[2]) + 10 * DigitVal(text[3])
        + DigitVal(text[4])
IsoMonth(text) == 10 * DigitVal(text[6]) + DigitVal(text[7])
IsoDay(text) == 10 * DigitVal(text[9]) + DigitVal(text[10])

QuarterEnds == {<<3, 31>>, <<6, 30>>, <<9, 30>>, <<12, 31>>}

\* The position of the run is past the fetch and the processing.
Processed == pc \in {"write", "done", "raised"} /\ Len(responses) = Len(served)

RECURSIVE SumSizes(_)
SumSizes(groups) ==
    IF Len(groups) = 0 THEN 0 ELSE Len(groups[1][2]) + SumSizes(Tail(groups))

\* The number of entries in the first k pages of sv.
RECURSIVE EntriesBefore(_, _)
EntriesBefore(sv, k) ==
    IF k = 0 THEN 0 ELSE EntriesBefore(sv, k - 1) + Len(sv[k].json.data)

AllOk(sv) == \A i \in 1..Len(sv) : ok(sv[i])

\* Every page of sv but the last links to a next page, by links that differ.
Linked(sv) ==
    /\ Len(sv) >= 1
    /\ AllOk(sv)
    /\ \A i \in 1..(Len(sv) - 1) :
         /\ "next" \in DOMAIN sv[i].json.links
         /\ Truthy(sv[i].json.links.next)
         /\ \A j \in 1..(i - 1) : sv[j].json.links.next # sv[i].json.links.next

\* sv is a finite chain of successful pages whose last page has a null next.
ChainEndedByNull(sv) ==
    /\ Linked(sv)
    /\ "next" \in DOMAIN sv[Len(sv)].json.links
    /\ sv[Len(sv)].json.links.next = None

\* ... whose last page has a null next or no next at all.
ChainEnded(sv) ==
    /\ Linked(sv)
    /\ \/ "next" \notin DOMAIN sv[Len(sv)].json.links
       \/ sv[Len(sv)].json.links.next = None

(***************************************************************************)
(* Properties of the constructor (SpecDate).                               *)
(***************************************************************************)
\* C6: for every explicit reference date d that is not after today, the
\* constructor does not raise and the boundary it computes is formatted
\* YYYY-MM-DD, is a quarter-end (Mar 31, Jun 30, Sep 30, Dec 31), is not
\* before d, and lies in the year and the quarter of d (a Q4 date maps to
\* Dec 31 of the same year).
C6_BoundaryEndsQuarterOfDate ==
    \A a \in DateArgs :
        ( /\ argv_since = a.text
          /\ pc # "main"
          /\ DayKey(a.year, a.month, a.day) <= DayKey(now.year, now.month, now.day) )
        => /\ pc = "fetch"
           /\ IsIsoDate(since_date_str)
           /\ LET y == IsoYear(since_date_str)
                  m == IsoMonth(since_date_str)
                  d == IsoDay(since_date_str)
              IN  /\ <<m, d>> \in QuarterEnds
                  /\ DayKey(y, m, d) >= DayKey(a.year, a.month, a.day)
                  /\ y = a.year
                  /\ (m - 1) \div 3 = (a.month - 1) \div 3

\* C6, its case: the reference date Dec 31, given on Dec 31, maps to itself.
C6_Witness ==
    /\ pc = "fetch"
    /\ argv_since = <<"2", "0", "2", "4", "-", "1", "2", "-", "3", "1">>
    /\ since_date_str = <<"2", "0", "2", "4", "-", "1", "2", "-", "3", "1">>
    /\ now.year = 2024 /\ now.month = 12 /\ now.day = 31

\* C7: with no reference date, for every clock, the boundary is the day
\* before the first day of the quarter of today: the last day of the
\* preceding quarter, Dec 31 of the previous year when today is in Q1.
C7_BoundaryEndsPreviousQuarter ==
    (argv_since = << >> /\ pc # "main")
    => /\ pc = "fetch"
       /\ IsIsoDate(since_date_str)
       /\ LET y == IsoYear(since_date_str)
              m == IsoMonth(since_date_str)
              d == IsoDay(since_date_str)
              first == 3 * ((now.month - 1) \div 3) + 1   \* first month of today's quarter
          IN  /\ <<m, d>> \in QuarterEnds
              /\ DayKey(y, m, d) < DayKey(now.year, first, 1)
              /\ IF first = 1 THEN y = now.year - 1 /\ m = 12 /\ d = 31
                              ELSE y = now.year /\ m = first - 1

\* C7, its case: no argument on 2024-02-15 gives 2023-12-31.
C7_Witness ==
    /\ pc = "fetch"
    /\ argv_since = << >>
    /\ now.year = 2024 /\ now.month = 2 /\ now.day = 15
    /\ since_date_str = <<"2", "0", "2", "3", "-", "1", "2", "-", "3", "1">>

(***************************************************************************)
(* Properties of whole runs (Spec).                                        *)
(***************************************************************************)
\* Every request was answered successfully and accumulated, the program
\* sees no further page, and the entries fetched are as many as the first
\* page declared.
FetchedAndValidated ==
    /\ Len(served) >= 1
    /\ AllOk(served)
    /\ responses = served
    /\ ~Truthy(next_pg)
    /\ EntriesBefore(served, Len(served)) = served[1].json.meta["total-count"]

\* C1: no partition file is written until all pages have been fetched
\* successfully and the completeness check has passed; a run that ends in a
\* fetch error or in the completeness check's error has written nothing and
\* leaves the files as they were.
C1_NoWriteBeforeValidation ==
    /\ [](raised.type \in {"Exception", "NameError"}
            => disk \in InitialDisks /\ parquet_files_created = << >>)
    /\ [][(disk' # disk \/ parquet_files_created' # parquet_files_created)
            => (pc = "write" /\ raised = NoException /\ FetchedAndValidated)]_vars

\* C1, its case: a two-page fetch fails the completeness check beside a file
\* of an earlier run.
C1_Witness ==
    /\ raised.type = "NameError"
    /\ Len(served) = 2
    /\ DOMAIN disk # {}

\* C2: a non-success response (first page or later) ends the session at once
\* with a fetch error carrying that response's status code: it is the last
\* request, nothing is processed, no file is written, nothing runs after it.
C2_FailedResponseAbortsSession ==
    \A i \in 1..Len(served) :
        ~ok(served[i])
        => /\ i = Len(served)
           /\ Len(requests_made) = Len(served)
           /\ Len(responses) = Len(served) - 1
           /\ pc = "raised"
           /\ raised = [type |-> "Exception", status_code |-> served[i].status_code]
           /\ exchange_data = << >> /\ df.rows = << >> /\ grouped_df = << >>
           /\ parquet_files_created = << >>
           /\ disk \in InitialDisks
           /\ stdout = << >>
           /\ ~ENABLED Next

\* C2, its case: the second page fails after a good first page.
C2_Witness ==
    /\ Len(served) = 2
    /\ ok(served[1]) /\ served[2].status_code = 503
    /\ Len(served[1].json.data) > 0
    /\ pc = "raised"

\* C3: when all pages are fetched and the number of flattened records differs
\* from the declared total, the run fails with an error that names the
\* expected and the actual count, and writes no group.
C3_MismatchNamesBothCounts ==
    ( /\ Processed
      /\ AllOk(served)
      /\ "record_date" \in df.columns
      /\ Len(exchange_data) # expected_data_count )
    => /\ pc = "raised"
       /\ raised.type = "Exception"
       /\ "expected" \in DOMAIN raised /\ "actual" \in DOMAIN raised
       /\ raised.expected = expected_data_count
       /\ raised.actual = Len(exchange_data)
       /\ parquet_files_created = << >>

\* C4: for a finite chain of successful pages, which a null next ends, the
\* fetch does not raise, requests each page once by the link of the page
\* before it, accumulates the pages in chain order, and the flattened
\* sequence is the pages' data in page and record order; its length is the
\* declared total when that is the sum of the pages' counts.
C4_FetchConcatenatesChain ==
    ChainEndedByNull(served)
    => /\ raised.type # "Exception"
       /\ ~(raised.type = "KeyError" /\ raised.key = "next")
       /\ responses = served
       /\ Len(requests_made) = Len(served)
       /\ requests_made[1].page = ""
       /\ \A i \in 2..Len(served) :
            requests_made[i].page = served[i - 1].json.links.next
       /\ pc \in {"write", "done", "raised"}
          => /\ Len(exchange_data) = EntriesBefore(served, Len(served))
             /\ \A i \in 1..Len(served) : \A j \in 1..Len(served[i].json.data) :
                  exchange_data[EntriesBefore(served, i - 1) + j] = served[i].json.data[j]
             /\ served[1].json.meta["total-count"] = EntriesBefore(served, Len(served))
                => Len(exchange_data) = expected_data_count

\* C4, its case: three pages, two different entries on different pages.
C4_Witness ==
    /\ ChainEndedByNull(served)
    /\ Len(served) = 3
    /\ pc = "write"
    /\ Len(exchange_data) = 2
    /\ exchange_data[1] # exchange_data[2]
    /\ Len(served[1].json.data) = 0

\* C5: for a record set that passes the completeness check, there is one
\* group per distinct record_date value (null and missing included), every
\* record is in exactly one group, and the groups' sizes sum to the declared
\* total.
C5_GroupsPartitionRecords ==
    (pc = "write" /\ parquet_files_created = << >>)
    => /\ Len(grouped_df) = Cardinality({df.rows[i].record_date : i \in 1..Len(df.rows)})
       /\ SumSizes(grouped_df) = expected_data_count
       /\ \A i \in 1..Len(df.rows) :
            Cardinality({g \in 1..Len(grouped_df) :
                           \E k \in 1..Len(grouped_df[g][2]) :
                               grouped_df[g][2][k] = df.rows[i]}) = 1

\* C8: an explicit reference date is rejected if and only if it is strictly
\* after today; the rejection is the constructor's, with no request issued,
\* no file written and nothing run after it.
C8_FutureDateRejectedAtConstruction ==
    \A a \in RunArgs :
        (argv_since = a.text /\ pc # "main")
        => LET after == DayKey(a.year, a.month, a.day) > DayKey(now.year, now.month, now.day)
           IN  /\ (raised.type = "ValueError") <=> after
               /\ after => /\ pc = "raised"
                           /\ requests_made = << >> /\ served = << >>
                           /\ parquet_files_created = << >>
                           /\ disk \in InitialDisks
                           /\ stdout = << >>
                           /\ ~ENABLED Next
               /\ ~after => IsIsoDate(since_date_str)

\* C8, its case: tomorrow's date is rejected.
C8_Witness ==
    /\ argv_since = <<"2", "0", "2", "4", "-", "0", "2", "-", "1", "6">>
    /\ now.year = 2024 /\ now.month = 2 /\ now.day = 15
    /\ raised.type = "ValueError"
    /\ pc = "raised"

\* C9: for a finite chain of successful pages, ended by a null or an absent
\* next, the loop issues one request per page, none twice, and stops without
\* raising.
C9_LoopStopsAtNullOrAbsentNext ==
    ChainEnded(served)
    => /\ raised.type # "KeyError" \/ raised.key # "next"
       /\ Len(requests_made) = Len(served)
       /\ \A i, j \in 1..Len(requests_made) : i # j => requests_made[i] # requests_made[j]

\* C10: a single successful page with zero records and a declared total of 0
\* completes the run without error, writes no file and reports an empty list
\* of created files.
C10_EmptyResultCompletes ==
    ( /\ served = <<[status_code |-> 200, json |-> Body(<< >>, 0, LinksWithNext(None))]>>
      /\ pc \in {"write", "done", "raised"} )
    => /\ raised = NoException
       /\ parquet_files_created = << >>
       /\ disk \in InitialDisks
       /\ pc = "done" => stdout = <<"Successfully created: .">>

=============================================================================
